---- MODULE Spec2Model ----
(***************************************************************************)
(* Model of the Tix extension (src/src/extension.ts): the Mark-Done,       *)
(* Sort-By-Context and Archive commands over a line-oriented document, the *)
(* folding-range provider, and the context colour assignment done by the   *)
(* decoration pass.                                                        *)
(*                                                                         *)
(* A string is a sequence of one-character strings; a document is a        *)
(* non-empty sequence of lines (a text that ends with a line break has an  *)
(* empty last line), and line numbers are 0-based as in the editor API.    *)
(* The commands are modelled for an active editor holding a tix document,  *)
(* i.e. past the guards of lines 226, 267 and 349.                         *)
(***************************************************************************)
EXTENDS Integers, Sequences, FiniteSets, TLC

VARIABLES
  lines,            \* the document of the active editor, a sequence of lines
  archive,          \* content of the <file>.archive sidecar, a string
  message,          \* last information message shown ("" when none)
  ranges,           \* folding ranges last returned by the provider
  lastOp,           \* the command or provider that ran last
  before,           \* the document when that handler started
  archiveBefore,    \* the sidecar content when that handler started
  line,             \* selection.active.line when that handler started
  date,             \* the date the Archive handler read from the clock
  decorationTypes,  \* context -> palette index of its decoration type
  contextColorMap,  \* context -> palette index
  firstSeen,        \* contexts of this colour-map instance, in lookup order
  openDocs,         \* documents open in the editor
  annotated,        \* open documents decorated since they were opened
  activeDoc,        \* document of the active editor (0: none)
  activeText,       \* text of that document at its last decoration pass
  firstPass         \* the last decoration pass was that document's first

editVars == <<lines, archive, message, ranges, before, archiveBefore, line, date>>
colorVars == <<decorationTypes, contextColorMap, firstSeen, openDocs, annotated,
               activeDoc, activeText, firstPass>>
vars == <<lines, archive, message, ranges, lastOp, before, archiveBefore, line,
          date, decorationTypes, contextColorMap, firstSeen, openDocs, annotated,
          activeDoc, activeText, firstPass>>

(***************************************************************************)
(* Bounds of the model.                                                    *)
(***************************************************************************)
MaxLines == 4
MaxArchived == 2
NumDocs == 2
NumContexts == 18
MaxColorLines == 2

(***************************************************************************)
(* Strings.                                                                *)
(***************************************************************************)
NL == "\n"
WhiteSpace == {" ", "\t"}

Min(a, b) == IF a < b THEN a ELSE b

\* String.prototype.trim
trim(s) ==
  LET idx == {i \in 1..Len(s) : s[i] \notin WhiteSpace}
  IN IF idx = {} THEN <<>>
     ELSE SubSeq(s, CHOOSE i \in idx : \A j \in idx : i <= j,
                    CHOOSE i \in idx : \A j \in idx : j <= i)

\* String.prototype.endsWith(':')
endsWithColon(s) == Len(s) > 0 /\ s[Len(s)] = ":"

\* the project-header test: text.endsWith(':') && text.length > 1 on the trimmed text
IsProjectHeader(raw) == endsWithColon(trim(raw)) /\ Len(trim(raw)) > 1

IsBlank(raw) == trim(raw) = <<>>

DoneTitle == <<"D", "o", "n", "e", ":">>

\* s.match(/^(.+?)\s+-\s/): the lengths k of a first group that lets the rest match
ContextLens(s) ==
  {k \in 1..Len(s) :
     \E j \in 1..Len(s) :
        /\ k + j + 2 <= Len(s)
        /\ \A i \in (k + 1)..(k + j) : s[i] \in WhiteSpace
        /\ s[k + j + 1] = "-"
        /\ s[k + j + 2] \in WhiteSpace}

\* matchA ? matchA[1] : '' -- the lazy group takes the shortest length that matches
ContextKey(s) ==
  IF ContextLens(s) = {} THEN <<>>
  ELSE SubSeq(s, 1, CHOOSE k \in ContextLens(s) : \A m \in ContextLens(s) : k <= m)

(***************************************************************************)
(* The text document of the editor API: text, offsets and positions.       *)
(***************************************************************************)
RECURSIVE getText(_)
\* document.getText(): the lines joined by line breaks
getText(doc) ==
  IF Len(doc) = 1 THEN doc[1]
  ELSE doc[1] \o <<NL>> \o getText(Tail(doc))

RECURSIVE SplitLines(_)
\* the lines of a text: the document the editor holds after an edit
SplitLines(text) ==
  LET brk == {i \in 1..Len(text) : text[i] = NL}
  IN IF brk = {} THEN <<text>>
     ELSE LET b == CHOOSE i \in brk : \A j \in brk : i <= j
          IN <<SubSeq(text, 1, b - 1)>> \o SplitLines(SubSeq(text, b + 1, Len(text)))

lineAt(doc, i) == doc[i + 1]

RECURSIVE LineStart(_, _)
\* offset of the first character of line l
LineStart(doc, l) ==
  IF l = 0 THEN 0 ELSE LineStart(doc, l - 1) + Len(lineAt(doc, l - 1)) + 1

\* offset of Position(l, c) as the editor validates it: a line past the last
\* one becomes the end of the document, a column past the line's end its end
offsetAt(doc, l, c) ==
  IF l >= Len(doc) THEN Len(getText(doc))
  ELSE LineStart(doc, l) + Min(c, Len(lineAt(doc, l)))

\* document.positionAt(offset).line
positionAtLine(text, offset) == Cardinality({i \in 1..offset : text[i] = NL})

\* text.indexOf(pat), -1 when absent
indexOf(text, pat) ==
  LET hits == {o \in 0..(Len(text) - Len(pat)) : SubSeq(text, o + 1, o + Len(pat)) = pat}
  IN IF hits = {} THEN -1 ELSE CHOOSE o \in hits : \A p \in hits : o <= p

\* text.match(/^Done:$/m): some line of the text is exactly "Done:"
doneMatch(doc) == \E i \in 1..Len(doc) : doc[i] = DoneTitle

\* editor.edit with one delete of [ds, de) and one insert of ins at offset p;
\* the edit is rejected, and the text kept, when the insert lies inside the
\* deleted range (overlapping ranges are not allowed)
applyEdits(text, ds, de, p, ins) ==
  IF p <= ds
    THEN SubSeq(text, 1, p) \o ins \o SubSeq(text, p + 1, ds) \o SubSeq(text, de + 1, Len(text))
  ELSE IF p >= de
    THEN SubSeq(text, 1, ds) \o SubSeq(text, de + 1, p) \o ins \o SubSeq(text, p + 1, Len(text))
  ELSE text

(***************************************************************************)
(* tix.markDone                                                            *)
(***************************************************************************)
\* the guard of line 235: the line is skipped
markDoneSkips(lineText) == trim(lineText) = <<>> \/ endsWithColon(lineText)

\* end of document.lineAt(l).rangeIncludingLineBreak
lineBreakEnd(doc, l) ==
  IF l < Len(doc) - 1 THEN offsetAt(doc, l + 1, 0) ELSE offsetAt(doc, l, Len(lineAt(doc, l)))

\* where the item goes: after the line holding the first "Done:" of the text
doneInsertOffset(doc) ==
  LET text == getText(doc)
      doneIndex == indexOf(text, DoneTitle)
      doneLine == positionAtLine(text, doneIndex + Len(DoneTitle))
  IN offsetAt(doc, doneLine + 1, 0)

\* the document after the edit of lines 239-259
markDoneText(doc, l) ==
  LET lineText == lineAt(doc, l)
      text == getText(doc)
      ds == offsetAt(doc, l, 0)
      de == lineBreakEnd(doc, l)
  IN IF doneMatch(doc)
       THEN applyEdits(text, ds, de, doneInsertOffset(doc), lineText \o <<NL>>)
       ELSE applyEdits(text, ds, de,
                       offsetAt(doc, Len(doc) - 1, Len(lineAt(doc, Len(doc) - 1))),
                       <<NL, NL>> \o DoneTitle \o <<NL>> \o lineText \o <<NL>>)

MarkDone(l) ==
  /\ Len(lines) <= MaxLines
  /\ l \in 0..(Len(lines) - 1)
  /\ lines' = IF markDoneSkips(lineAt(lines, l)) THEN lines
              ELSE SplitLines(markDoneText(lines, l))
  /\ lastOp' = "markDone"
  /\ before' = lines
  /\ archiveBefore' = archive
  /\ line' = l
  /\ message' = ""
  /\ UNCHANGED <<archive, ranges, date>>
  /\ UNCHANGED colorVars

(***************************************************************************)
(* tix.sortByContext                                                       *)
(***************************************************************************)
LowerCase == <<"a", "b", "c", "d", "e", "f", "g", "h", "i", "j", "k", "l", "m",
               "n", "o", "p", "q", "r", "s", "t", "u", "v", "w", "x", "y", "z">>
UpperCase == <<"A", "B", "C", "D", "E", "F", "G", "H", "I", "J", "K", "L", "M",
               "N", "O", "P", "Q", "R", "S", "T", "U", "V", "W", "X", "Y", "Z">>

LetterIndex(c) ==
  CHOOSE i \in 1..Len(LowerCase) : LowerCase[i] = c \/ UpperCase[i] = c

IsLetter(c) == \E i \in 1..Len(LowerCase) : LowerCase[i] = c \/ UpperCase[i] = c

\* primary collation weight: white space, then punctuation, then the letters
\* in alphabetical order whatever their case
PrimaryWeight(c) ==
  IF c = "\t" THEN 1
  ELSE IF c = " " THEN 2
  ELSE IF c = "-" THEN 3
  ELSE IF c = ":" THEN 4
  ELSE IF IsLetter(c) THEN 4 + LetterIndex(c)
  ELSE 0

\* tertiary collation weight: a lower-case letter before its upper-case form
TertiaryWeight(c) == IF \E i \in 1..Len(UpperCase) : UpperCase[i] = c THEN 1 ELSE 0

RECURSIVE CompareWeights(_, _)
\* sign of the lexicographic comparison of two weight sequences
CompareWeights(u, v) ==
  IF u = <<>> THEN (IF v = <<>> THEN 0 ELSE -1)
  ELSE IF v = <<>> THEN 1
  ELSE IF Head(u) < Head(v) THEN -1
  ELSE IF Head(u) > Head(v) THEN 1
  ELSE CompareWeights(Tail(u), Tail(v))

\* a.localeCompare(b): primary weights decide, the case breaks their ties
localeCompare(a, b) ==
  LET p == CompareWeights([i \in 1..Len(a) |-> PrimaryWeight(a[i])],
                          [i \in 1..Len(b) |-> PrimaryWeight(b[i])])
  IN IF p # 0 THEN p
     ELSE CompareWeights([i \in 1..Len(a) |-> TertiaryWeight(a[i])],
                         [i \in 1..Len(b) |-> TertiaryWeight(b[i])])

\* variant: the whole lines are compared, not their contexts
compareWholeLines(a, b) == localeCompare(a, b)

\* the comparator of lines 313-319
compareItems(a, b) == localeCompare(ContextKey(a), ContextKey(b))

RECURSIVE sortItems(_)
\* project.items.sort(comparator): a stable sort, each item going after those
\* that do not compare greater
sortItems(items) ==
  IF Len(items) <= 1 THEN items
  ELSE LET n == Len(items)
           sorted == sortItems(SubSeq(items, 1, n - 1))
           x == items[n]
           k == Cardinality({i \in 1..(n - 1) : compareItems(sorted[i], x) <= 0})
       IN SubSeq(sorted, 1, k) \o <<x>> \o SubSeq(sorted, k + 1, n - 1)

BlankItems(n) == [j \in 1..n |-> <<>>]

RECURSIVE parseProjects(_, _, _, _)
\* the loop of lines 284-309: projects closed so far and the current project
\* (<<>> for null) at line i
parseProjects(doc, i, projects, current) ==
  IF i = Len(doc) THEN projects \o current
  ELSE LET lineText == lineAt(doc, i)
           trimmed == trim(lineText)
       IN IF endsWithColon(trimmed) /\ Len(trimmed) > 1
            THEN parseProjects(doc, i + 1, projects \o current,
                               <<[header |-> lineText, items |-> <<>>, trailingEmpty |-> 0]>>)
          ELSE IF current # <<>>
            THEN IF trimmed = <<>>
                   THEN parseProjects(doc, i + 1, projects,
                          <<[current[1] EXCEPT !.trailingEmpty = @ + 1]>>)
                   ELSE parseProjects(doc, i + 1, projects,
                          <<[current[1] EXCEPT
                               !.items = @ \o BlankItems(current[1].trailingEmpty)
                                           \o <<lineText>>,
                               !.trailingEmpty = 0]>>)
          ELSE parseProjects(doc, i + 1, projects, current)

RECURSIVE rebuildLines(_, _)
\* the loop of lines 323-332 from project i on (1-based)
rebuildLines(projects, i) ==
  IF i > Len(projects) THEN <<>>
  ELSE <<projects[i].header>> \o sortItems(projects[i].items)
       \o (IF i < Len(projects) THEN <<<<>>>> ELSE <<>>)
       \o rebuildLines(projects, i + 1)

RECURSIVE joinLines(_)
\* lines.join('\n')
joinLines(ls) ==
  IF ls = <<>> THEN <<>>
  ELSE IF Len(ls) = 1 THEN ls[1]
  ELSE ls[1] \o <<NL>> \o joinLines(Tail(ls))

\* the text that replaces the whole document
sortByContextText(doc) == joinLines(rebuildLines(parseProjects(doc, 0, <<>>, <<>>), 1))

SortByContext ==
  /\ Len(lines) <= MaxLines
  /\ lines' = SplitLines(sortByContextText(lines))
  /\ lastOp' = "sortByContext"
  /\ before' = lines
  /\ archiveBefore' = archive
  /\ line' = 0
  /\ message' = ""
  /\ UNCHANGED <<archive, ranges, date>>
  /\ UNCHANGED colorVars

(***************************************************************************)
(* tix.archive                                                             *)
(***************************************************************************)
RECURSIVE doneScan(_, _, _)
\* the loop of lines 361-370: <<doneStartLine, doneEndLine>>
doneScan(doc, i, doneStartLine) ==
  IF i = Len(doc) THEN <<doneStartLine, -1>>
  ELSE LET text == trim(lineAt(doc, i))
       IN IF text = DoneTitle THEN doneScan(doc, i + 1, i)
          ELSE IF doneStartLine >= 0 /\ endsWithColon(text) /\ Len(text) > 1
            THEN <<doneStartLine, i - 1>>
          ELSE doneScan(doc, i + 1, doneStartLine)

doneStart(doc) == doneScan(doc, 0, -1)[1]

\* lines 372-375: a Done section that is not closed runs to the last line
doneEnd(doc) ==
  LET r == doneScan(doc, 0, -1)
  IN IF r[1] >= 0 /\ r[2] < 0 THEN Len(doc) - 1 ELSE r[2]

RECURSIVE collectAllLines(_, _, _)
\* variant: blank lines are collected too
collectAllLines(doc, i, last) ==
  IF i > last THEN <<>>
  ELSE <<lineAt(doc, i)>> \o collectAllLines(doc, i + 1, last)

RECURSIVE collectItems(_, _, _)
\* the loop of lines 383-389 from line i on
collectItems(doc, i, last) ==
  IF i > last THEN <<>>
  ELSE (IF trim(lineAt(doc, i)) # <<>> THEN <<lineAt(doc, i)>> ELSE <<>>)
       \o collectItems(doc, i + 1, last)

doneItems(doc) == collectItems(doc, doneStart(doc) + 1, doneEnd(doc))

\* `\nArchived ${date}:\n${doneItems.join('\n')}\n`
archiveContent(d, items) ==
  <<NL, "Archived ", d, ":", NL>> \o joinLines(items) \o <<NL>>

\* variant: the deletion starts at the header line
archiveTextFromHeader(doc) ==
  LET text == getText(doc)
      ds == offsetAt(doc, doneStart(doc), 0)
      de == offsetAt(doc, doneEnd(doc) + 1, 0)
  IN SubSeq(text, 1, ds) \o SubSeq(text, de + 1, Len(text))

\* the document after the deletion of lines 403-410
archiveText(doc) ==
  LET text == getText(doc)
      ds == offsetAt(doc, doneStart(doc) + 1, 0)
      de == offsetAt(doc, doneEnd(doc) + 1, 0)
  IN SubSeq(text, 1, ds) \o SubSeq(text, de + 1, Len(text))

\* new Date().toISOString().split('T')[0]
Dates == {"2024-01-15", "2024-01-16"}

ArchivedBlocks(a) == Cardinality({i \in 1..Len(a) : a[i] = "Archived "})

Archive ==
  /\ Len(lines) <= MaxLines
  /\ ArchivedBlocks(archive) < MaxArchived
  /\ lastOp' = "archive"
  /\ before' = lines
  /\ archiveBefore' = archive
  /\ line' = 0
  /\ UNCHANGED ranges
  /\ UNCHANGED colorVars
  /\ IF doneStart(lines) < 0
       THEN /\ message' = "No Done section found"
            /\ date' = ""
            /\ UNCHANGED <<lines, archive>>
     ELSE IF Len(doneItems(lines)) = 0
       THEN /\ message' = "No items to archive"
            /\ date' = ""
            /\ UNCHANGED <<lines, archive>>
     ELSE \E d \in Dates :
            /\ date' = d
            /\ archive' = archive \o archiveContent(d, doneItems(lines))
            /\ lines' = SplitLines(archiveText(lines))
            /\ message' = "Archived " \o ToString(Len(doneItems(lines))) \o " items"

(***************************************************************************)
(* TixFoldingRangeProvider                                                 *)
(***************************************************************************)
\* variant: trailing blank lines are not skipped
lastLineOfSection(doc, endLine, projectStart) == endLine

RECURSIVE lastNonEmpty(_, _, _)
\* the loops of lines 160-162 and 174-176
lastNonEmpty(doc, endLine, projectStart) ==
  IF endLine > projectStart /\ trim(lineAt(doc, endLine)) = <<>>
    THEN lastNonEmpty(doc, endLine - 1, projectStart)
  ELSE endLine

\* lines 157-166 and 172-180: the range of the project that ends before line i
closeProject(doc, i, projectStart) ==
  IF projectStart >= 0 /\ lastNonEmpty(doc, i - 1, projectStart) > projectStart
    THEN <<<<projectStart, lastNonEmpty(doc, i - 1, projectStart)>>>>
  ELSE <<>>

RECURSIVE foldScan(_, _, _, _)
\* the loop of lines 150-169 and the closing of the final project; -1 is null
foldScan(doc, i, rs, projectStart) ==
  IF i = Len(doc) THEN rs \o closeProject(doc, Len(doc), projectStart)
  ELSE LET text == trim(lineAt(doc, i))
       IN IF endsWithColon(text) /\ Len(text) > 1
            THEN foldScan(doc, i + 1, rs \o closeProject(doc, i, projectStart), i)
          ELSE foldScan(doc, i + 1, rs, projectStart)

provideFoldingRanges(doc) == foldScan(doc, 0, <<>>, -1)

ProvideFoldingRanges ==
  /\ Len(lines) <= MaxLines
  /\ ranges' = provideFoldingRanges(lines)
  /\ lastOp' = "provideFoldingRanges"
  /\ before' = lines
  /\ archiveBefore' = archive
  /\ line' = 0
  /\ message' = ""
  /\ UNCHANGED <<lines, archive, date>>
  /\ UNCHANGED colorVars

(***************************************************************************)
(* Decorations: updateDecorations and getContextDecorationType             *)
(***************************************************************************)
PaletteSize == 16

\* line.text.match(/^(\s*)(.+?)\s+-\s/)[2]: the first group is greedy, so the
\* longest run of leading white space that lets the rest match is taken, and
\* <<>> stands for no match
decorationContext(s) ==
  LET lead == {i \in 0..Len(s) :
                 /\ \A j \in 1..i : s[j] \in WhiteSpace
                 /\ ContextLens(SubSeq(s, i + 1, Len(s))) # {}}
  IN IF lead = {} THEN <<>>
     ELSE ContextKey(SubSeq(s, (CHOOSE i \in lead : \A j \in lead : j <= i) + 1, Len(s)))

RECURSIVE contextsOf(_, _, _)
\* the keys of contextRanges after the loop of lines 71-99, in insertion order
contextsOf(doc, i, keys) ==
  IF i = Len(doc) THEN keys
  ELSE LET text == trim(lineAt(doc, i))
           context == decorationContext(lineAt(doc, i))
       IN IF endsWithColon(text) /\ Len(text) > 1 THEN contextsOf(doc, i + 1, keys)
          ELSE IF context # <<>> /\ \A k \in 1..Len(keys) : keys[k] # context
            THEN contextsOf(doc, i + 1, Append(keys, context))
          ELSE contextsOf(doc, i + 1, keys)

\* variant: the index is the size of the map, without the rotation
colorMapAfterNoRotation(types, map, context) ==
  IF context \notin DOMAIN types /\ context \notin DOMAIN map
    THEN map @@ (context :> Cardinality(DOMAIN map))
  ELSE map

\* contextColorMap after getContextDecorationType(context), lines 38-42
colorMapAfter(types, map, context) ==
  IF context \notin DOMAIN types /\ context \notin DOMAIN map
    THEN map @@ (context :> (Cardinality(DOMAIN map) % PaletteSize))
  ELSE map

\* decorationTypes after getContextDecorationType(context), lines 38-50: a new
\* decoration type takes the colour of the context's index
decorationTypesAfter(types, map, context) ==
  IF context \notin DOMAIN types
    THEN types @@ (context :> colorMapAfter(types, map, context)[context])
  ELSE types

RECURSIVE applyDecorations(_, _, _, _)
\* the forEach of lines 104-107 from key i on: <<decorationTypes, contextColorMap>>
applyDecorations(keys, i, types, map) ==
  IF i > Len(keys) THEN <<types, map>>
  ELSE applyDecorations(keys, i + 1,
                        decorationTypesAfter(types, map, keys[i]),
                        colorMapAfter(types, map, keys[i]))

RECURSIVE recordSeen(_, _, _)
\* the contexts looked up so far, in the order of their first lookup
recordSeen(seen, keys, i) ==
  IF i > Len(keys) THEN seen
  ELSE IF \E k \in 1..Len(seen) : seen[k] = keys[i] THEN recordSeen(seen, keys, i + 1)
  ELSE recordSeen(Append(seen, keys[i]), keys, i + 1)

Languages == {"tix", "plaintext"}
DocIds == 1..NumDocs

ContextName(k) == <<LowerCase[k]>>
ItemLine(k) == ContextName(k) \o <<" ", "-", " ", "t">>
IndentedItem(k) == <<" ">> \o ItemLine(k)

\* lines a decorated text is made of when n contexts are known: a header, an
\* indented item of the first context and items of the next two contexts
ColorLines(n) ==
  {DoneTitle, IndentedItem(1)}
    \cup {ItemLine(k) : k \in {j \in {n + 1, n + 2} : j <= NumContexts}}

\* the texts a pass may find: contexts not yet known are named in alphabetical
\* order, so a text brings the second next context only after the next one
ColorTexts(n) ==
  {t \in UNION {[1..m -> ColorLines(n)] : m \in 1..MaxColorLines} :
     \A i \in 1..Len(t) :
        t[i] = ItemLine(n + 2) =>
          \E j \in 1..(i - 1) : decorationContext(t[j]) = ContextName(n + 1)}

\* updateDecorations(editor) on the active editor's document
UpdateDecorations(d, text, languageId) ==
  IF languageId # "tix"
    THEN UNCHANGED <<decorationTypes, contextColorMap, firstSeen, annotated,
                     activeText, firstPass>>
  ELSE LET keys == contextsOf(text, 0, <<>>)
              r == applyDecorations(keys, 1, decorationTypes, contextColorMap)
       IN /\ decorationTypes' = r[1]
          /\ contextColorMap' = r[2]
          /\ firstSeen' = recordSeen(firstSeen, keys, 1)
          /\ activeText' = text
          /\ firstPass' = (d \notin annotated)
          /\ annotated' = annotated \cup {d}

\* the host opens a document; the extension has no handler for it
OpenDocument(d) ==
  /\ d \in DocIds \ openDocs
  /\ openDocs' = openDocs \cup {d}
  /\ UNCHANGED <<decorationTypes, contextColorMap, firstSeen, annotated, activeDoc,
                 activeText, firstPass>>
  /\ UNCHANGED <<editVars, lastOp>>

\* onDidChangeActiveTextEditor, lines 206-210
ChangeActiveTextEditor(d, text, languageId) ==
  /\ d \in openDocs
  /\ activeDoc' = d
  /\ UpdateDecorations(d, text, languageId)
  /\ UNCHANGED openDocs
  /\ UNCHANGED <<editVars, lastOp>>

\* onDidChangeTextDocument, lines 215-220: only a change of the active
\* editor's document is decorated
ChangeTextDocument(d, text, languageId) ==
  /\ d \in openDocs
  /\ IF activeDoc # 0 /\ d = activeDoc
       THEN UpdateDecorations(d, text, languageId)
     ELSE UNCHANGED <<decorationTypes, contextColorMap, firstSeen, annotated,
                      activeText, firstPass>>
  /\ UNCHANGED <<openDocs, activeDoc>>
  /\ UNCHANGED <<editVars, lastOp>>

\* variant: closing a document discards the colour assignment
CloseDocumentDiscards(d) ==
  /\ d \in openDocs
  /\ openDocs' = openDocs \ {d}
  /\ annotated' = annotated \ {d}
  /\ activeDoc' = IF activeDoc = d THEN 0 ELSE activeDoc
  /\ decorationTypes' = <<>>
  /\ contextColorMap' = <<>>
  /\ firstSeen' = <<>>
  /\ UNCHANGED <<activeText, firstPass>>
  /\ UNCHANGED <<editVars, lastOp>>

\* the host closes a document; the extension has no handler for it
CloseDocument(d) ==
  /\ d \in openDocs
  /\ openDocs' = openDocs \ {d}
  /\ annotated' = annotated \ {d}
  /\ activeDoc' = IF activeDoc = d THEN 0 ELSE activeDoc
  /\ UNCHANGED <<decorationTypes, contextColorMap, firstSeen, activeText, firstPass>>
  /\ UNCHANGED <<editVars, lastOp>>

\* deactivate(), lines 418-427: both maps are cleared, a new instance begins
Deactivate ==
  /\ decorationTypes' = <<>>
  /\ contextColorMap' = <<>>
  /\ firstSeen' = <<>>
  /\ UNCHANGED <<openDocs, annotated, activeDoc, activeText, firstPass>>
  /\ UNCHANGED <<editVars, lastOp>>

(***************************************************************************)
(* Documents the commands are run on.                                      *)
(***************************************************************************)
Blank == <<>>
DoneHeader == DoneTitle
DoneHeaderSp == <<"D", "o", "n", "e", ":", " ">>
ProjHeader == <<"P", ":">>
ItemA == <<"a", " ", "-", " ", "x">>
ItemA2 == <<"a", " ", "-", " ", "z">>
ItemB == <<"b", " ", "-", " ", "y">>
PlainLine == <<"n">>
SpaceLine == <<" ">>

LinePool ==
  {Blank, SpaceLine, DoneHeader, DoneHeaderSp, ProjHeader, ItemA, ItemA2, ItemB, PlainLine}

Docs == UNION {[1..n -> LinePool] : n \in 1..MaxLines}

InitColor ==
  /\ decorationTypes = <<>>
  /\ contextColorMap = <<>>
  /\ firstSeen = <<>>
  /\ openDocs = {}
  /\ annotated = {}
  /\ activeDoc = 0
  /\ activeText = <<<<>>>>
  /\ firstPass = FALSE

Init ==
  /\ lines \in Docs
  /\ archive = <<>>
  /\ message = ""
  /\ ranges = <<>>
  /\ lastOp = "init"
  /\ before = lines
  /\ archiveBefore = <<>>
  /\ line = 0
  /\ date = ""
  /\ InitColor

Next ==
  \/ \E l \in 0..(MaxLines - 1) : MarkDone(l)
  \/ SortByContext
  \/ Archive
  \/ ProvideFoldingRanges

Spec == Init /\ [][Next]_vars

InitDecorations ==
  /\ lines = <<<<>>>>
  /\ archive = <<>>
  /\ message = ""
  /\ ranges = <<>>
  /\ lastOp = "init"
  /\ before = lines
  /\ archiveBefore = <<>>
  /\ line = 0
  /\ date = ""
  /\ InitColor

\* the text of the document a handler is called with; the text of a document
\* that is not a tix document is never read
DecoratedTexts(languageId) ==
  IF languageId = "tix" THEN ColorTexts(Len(firstSeen)) ELSE {<<<<>>>>}

NextDecorations ==
  \/ \E d \in DocIds : OpenDocument(d)
  \/ \E d \in openDocs, languageId \in Languages :
        \E text \in DecoratedTexts(languageId) : ChangeActiveTextEditor(d, text, languageId)
  \/ \E d \in openDocs, languageId \in Languages :
        \E text \in DecoratedTexts(languageId) : ChangeTextDocument(d, text, languageId)
  \/ \E d \in DocIds : CloseDocument(d)
  \/ Deactivate

SpecDecorations == InitDecorations /\ [][NextDecorations]_vars

(***************************************************************************)
(* Vocabulary of the properties.                                           *)
(***************************************************************************)
IsDoneHeader(raw) == trim(raw) = DoneTitle

\* 1-based indices of the lines that open a section, and of the Done headers
HeaderIndices(doc) == {i \in 1..Len(doc) : IsProjectHeader(doc[i])}
DoneIndices(doc) == {i \in 1..Len(doc) : IsDoneHeader(doc[i])}

\* index of the last line of the section that header h opens
SectionLast(doc, h) ==
  LET later == {i \in HeaderIndices(doc) : i > h}
  IN IF later = {} THEN Len(doc) ELSE (CHOOSE i \in later : \A j \in later : i <= j) - 1

SectionBody(doc, h) == SubSeq(doc, h + 1, SectionLast(doc, h))

RECURSIVE NonBlank(_)
\* the lines of a sequence that are not blank, in order
NonBlank(ls) ==
  IF ls = <<>> THEN <<>>
  ELSE (IF IsBlank(Head(ls)) THEN <<>> ELSE <<Head(ls)>>) \o NonBlank(Tail(ls))

\* a document without its line i (1-based)
RemoveLine(doc, i) == SubSeq(doc, 1, i - 1) \o SubSeq(doc, i + 1, Len(doc))

\* the line Mark-Done was run on, and whether it is an item that can be done
TargetLine == lineAt(before, line)
TargetIsItem == ~IsBlank(TargetLine) /\ ~IsProjectHeader(TargetLine)

(***************************************************************************)
(* C1: Mark-Done on a blank line or on a ProjectHeader (trimmed text ends  *)
(* with ':' and is longer than 1, whatever white space surrounds it)       *)
(* leaves the document text unchanged.                                     *)
(***************************************************************************)
C1_HeaderOrBlankIsNoOp ==
  (lastOp = "markDone" /\ (IsBlank(TargetLine) \/ IsProjectHeader(TargetLine)))
    => lines = before

(***************************************************************************)
(* C2: when the document has a section header whose trimmed text is        *)
(* exactly Done: and the target is an item, Mark-Done removes the target   *)
(* line and inserts it as the line right after that header; every other    *)
(* line keeps its text and its relative order.                             *)
(***************************************************************************)
\* the document with line t moved to right after the header that is line h
MovedAfter(doc, t, h) ==
  LET rest == RemoveLine(doc, t)
      hh == IF t < h THEN h - 1 ELSE h
  IN SubSeq(rest, 1, hh) \o <<doc[t]>> \o SubSeq(rest, hh + 1, Len(rest))

C2_MovedUnderDoneHeader ==
  (lastOp = "markDone" /\ TargetIsItem /\ DoneIndices(before) # {})
    => \E h \in DoneIndices(before) : lines = MovedAfter(before, line + 1, h)

(***************************************************************************)
(* C3: when the document has no Done: section and the target is an item    *)
(* (the last line included, the document ending with a line break or not), *)
(* Mark-Done removes the target line and appends a Done: section whose     *)
(* body is exactly the removed line, with exactly one blank line between   *)
(* the preceding content and the new header.                               *)
(***************************************************************************)
\* the lines of a text without the empty line its final line break makes
WithoutFinalBreak(ls) ==
  IF ls # <<>> /\ ls[Len(ls)] = <<>> THEN SubSeq(ls, 1, Len(ls) - 1) ELSE ls

C3_AppendedDoneSection ==
  (lastOp = "markDone" /\ TargetIsItem /\ DoneIndices(before) = {})
    => \E h \in 1..Len(lines) :
         /\ lines[h] = DoneTitle
         /\ Len(WithoutFinalBreak(lines)) = h + 1
         /\ lines[h + 1] = TargetLine
         /\ LET rest == WithoutFinalBreak(RemoveLine(before, line + 1))
            IN NonBlank(rest) # <<>> => SubSeq(lines, 1, h - 1) = rest \o <<<<>>>>

(***************************************************************************)
(* C4: Sort-By-Context leaves the preamble, the lines before the first     *)
(* ProjectHeader, unchanged and in place before the first section header.  *)
(***************************************************************************)
Preamble(doc) ==
  IF HeaderIndices(doc) = {} THEN doc
  ELSE SubSeq(doc, 1, (CHOOSE i \in HeaderIndices(doc) : \A j \in HeaderIndices(doc) : i <= j) - 1)

C4_PreambleUntouched ==
  lastOp = "sortByContext" => Preamble(lines) = Preamble(before)

(***************************************************************************)
(* C5: after Sort-By-Context the section headers are the original ones in  *)
(* the original order, and each section's non-blank lines are its original *)
(* non-blank lines, none lost, duplicated or altered, in ascending order   *)
(* of context key; a line without context has the empty key and precedes   *)
(* every line with a context, and lines of equal key keep their order.     *)
(***************************************************************************)
RECURSIVE SelectIndices(_, _)
\* the elements of a sequence at the indices of a set, in order
SelectIndices(ls, idx) ==
  IF ls = <<>> THEN <<>>
  ELSE SelectIndices(SubSeq(ls, 1, Len(ls) - 1), idx)
       \o (IF Len(ls) \in idx THEN <<ls[Len(ls)]>> ELSE <<>>)

HeaderSeq(doc) == SelectIndices(doc, HeaderIndices(doc))

\* index of the k-th header of a document
NthHeader(doc, k) ==
  CHOOSE i \in HeaderIndices(doc) : Cardinality({j \in HeaderIndices(doc) : j <= i}) = k

SameKey(a, b) == localeCompare(ContextKey(a), ContextKey(b)) = 0

\* b holds the lines of a, ascending by key, lines of equal key in a's order
IsStableSortByContext(b, a) ==
  /\ Len(b) = Len(a)
  /\ \A i, j \in 1..Len(b) :
       i < j => localeCompare(ContextKey(b[i]), ContextKey(b[j])) <= 0
  /\ \A i, j \in 1..Len(b) :
       (ContextLens(b[i]) = {} /\ ContextLens(b[j]) # {}) => i < j
  /\ \A x \in 1..Len(a) :
       SelectIndices(b, {i \in 1..Len(b) : SameKey(b[i], a[x])})
         = SelectIndices(a, {i \in 1..Len(a) : SameKey(a[i], a[x])})

C5_SectionsSortedByContext ==
  lastOp = "sortByContext" =>
    /\ HeaderSeq(lines) = HeaderSeq(before)
    /\ \A k \in 1..Cardinality(HeaderIndices(before)) :
         IsStableSortByContext(
           NonBlank(SectionBody(lines, NthHeader(lines, k))),
           NonBlank(SectionBody(before, NthHeader(before, k))))

\* a section held two lines out of order and two different lines of one key
C5_Witness ==
  /\ lastOp = "sortByContext"
  /\ \E h \in HeaderIndices(before) :
       LET body == NonBlank(SectionBody(before, h))
       IN /\ \E i, j \in 1..Len(body) :
               i < j /\ localeCompare(ContextKey(body[i]), ContextKey(body[j])) > 0
          /\ \E i, j \in 1..Len(body) : body[i] # body[j] /\ SameKey(body[i], body[j])

(***************************************************************************)
(* C6: when a Done: section holds a non-blank line, Archive appends the    *)
(* block "\nArchived <date>:\n" + items joined by line breaks + "\n",      *)
(* the items being the non-blank lines between the Done: header and the    *)
(* next ProjectHeader (or the end) in order; the document keeps the Done:  *)
(* header with an empty body and every line outside the section.           *)
(***************************************************************************)
ArchiveBlock(d, items) == <<NL, "Archived ", d, ":", NL>> \o joinLines(items) \o <<NL>>

\* the Done section that header h opens was archived
ArchivedSection(h) ==
  /\ date \in Dates
  /\ archive = archiveBefore \o ArchiveBlock(date, NonBlank(SectionBody(before, h)))
  /\ SubSeq(lines, 1, h) = SubSeq(before, 1, h)
  /\ IF SectionLast(before, h) < Len(before)
       THEN SubSeq(lines, h + 1, Len(lines))
              = SubSeq(before, SectionLast(before, h) + 1, Len(before))
     ELSE \A i \in (h + 1)..Len(lines) : IsBlank(lines[i])

\* the property for every document with such a section
C6_ArchivesDoneSection ==
  (lastOp = "archive"
     /\ \E h \in DoneIndices(before) : NonBlank(SectionBody(before, h)) # <<>>)
    => \E h \in DoneIndices(before) :
         NonBlank(SectionBody(before, h)) # <<>> /\ ArchivedSection(h)

\* the property for the documents with exactly one Done: header
C6_ArchivesTheOnlyDoneSection ==
  (lastOp = "archive"
     /\ Cardinality(DoneIndices(before)) = 1
     /\ \E h \in DoneIndices(before) : NonBlank(SectionBody(before, h)) # <<>>)
    => \E h \in DoneIndices(before) : ArchivedSection(h)

\* a Done section with a blank line and an item, followed by another section
C6_Witness ==
  /\ lastOp = "archive"
  /\ Cardinality(DoneIndices(before)) = 1
  /\ \E h \in DoneIndices(before) :
       /\ Len(NonBlank(SectionBody(before, h))) >= 1
       /\ \E i \in 1..Len(SectionBody(before, h)) : IsBlank(SectionBody(before, h)[i])
       /\ SectionLast(before, h) < Len(before)
  /\ archive # archiveBefore

(***************************************************************************)
(* C7: Archive on a document with no line whose trimmed text is Done:      *)
(* signals NoDoneSection, and on a document whose Done: section holds only *)
(* blank lines, or none, NothingToArchive; in both cases the document and  *)
(* the archive store are unchanged.                                        *)
(***************************************************************************)
C7_ArchiveSignals ==
  lastOp = "archive" =>
    /\ DoneIndices(before) = {} =>
         message = "No Done section found" /\ lines = before /\ archive = archiveBefore
    /\ (DoneIndices(before) # {}
          /\ \A h \in DoneIndices(before) : NonBlank(SectionBody(before, h)) = <<>>) =>
         message = "No items to archive" /\ lines = before /\ archive = archiveBefore

\* a Done section of blank lines only, the archive store not empty
C7_Witness ==
  /\ lastOp = "archive"
  /\ \E h \in DoneIndices(before) : SectionBody(before, h) # <<>>
  /\ \A h \in DoneIndices(before) : NonBlank(SectionBody(before, h)) = <<>>
  /\ message = "No items to archive"
  /\ archiveBefore # <<>>

(***************************************************************************)
(* C10: the folding ranges are, in document order, one (startLine,         *)
(* endLine) pair per ProjectHeader whose section has a non-blank body      *)
(* line: startLine is the header's line, endLine the last non-blank line   *)
(* before the next ProjectHeader or the end; so endLine > startLine, the   *)
(* line at endLine is not blank, and a section without non-blank body      *)
(* line has no range.                                                      *)
(***************************************************************************)
\* 1-based indices of the non-blank body lines of the section header h opens
BodyLineIndices(doc, h) == {i \in (h + 1)..SectionLast(doc, h) : ~IsBlank(doc[i])}

\* the pairs, with the 0-based line numbers of the editor
ExpectedFolds(doc) ==
  {<<h - 1, (CHOOSE i \in BodyLineIndices(doc, h) :
               \A j \in BodyLineIndices(doc, h) : j <= i) - 1>> :
     h \in {g \in HeaderIndices(doc) : BodyLineIndices(doc, g) # {}}}

C10_FoldingRanges ==
  lastOp = "provideFoldingRanges" =>
    /\ {ranges[i] : i \in 1..Len(ranges)} = ExpectedFolds(before)
    /\ \A i, j \in 1..Len(ranges) : i < j => ranges[i][1] < ranges[j][1]
    /\ \A i \in 1..Len(ranges) :
         ranges[i][2] > ranges[i][1] /\ ~IsBlank(lineAt(before, ranges[i][2]))

\* one section folded up to a line followed by a blank one, and one section
\* that has no range
C10_Witness ==
  /\ lastOp = "provideFoldingRanges"
  /\ \E i \in 1..Len(ranges) :
       ranges[i][2] + 2 <= Len(before) /\ IsBlank(lineAt(before, ranges[i][2] + 1))
  /\ \E h \in HeaderIndices(before) : BodyLineIndices(before, h) = {}

(***************************************************************************)
(* C8: within one colour-map instance the i-th distinct context looked up  *)
(* (i from 1) has colour index (i-1) mod 16, and keeps that index whatever *)
(* contexts are added and whatever passes run afterwards.                  *)
(***************************************************************************)
C8_IndexIsFirstSeenOrder ==
  /\ DOMAIN contextColorMap = {firstSeen[i] : i \in 1..Len(firstSeen)}
  /\ DOMAIN decorationTypes = DOMAIN contextColorMap
  /\ \A i \in 1..Len(firstSeen) :
       /\ contextColorMap[firstSeen[i]] = (i - 1) % PaletteSize
       /\ decorationTypes[firstSeen[i]] = (i - 1) % PaletteSize

\* more contexts than colours: the 17th and 18th share the indices of the first two
C8_Witness ==
  /\ Len(firstSeen) >= PaletteSize + 2
  /\ contextColorMap[firstSeen[PaletteSize + 1]] = contextColorMap[firstSeen[1]]
  /\ contextColorMap[firstSeen[PaletteSize + 2]] = 1

====
